---------------------------- MODULE Spec2Model ----------------------------
(***************************************************************************)
(* Agent dispatch and completion polling of the Meta-Ads orchestrator      *)
(* (meta-ads-orchestrator/scripts/dispatch_agent.py), together with the    *)
(* remote Agent's terminal write (SupabaseClient.update_agent_deliverable) *)
(* and the shared agent_deliverables table they communicate through; and   *)
(* the Google-Ads orchestrator's dispatcher, which triggers and returns    *)
(* (google-ads-orchestrator/scripts/dispatch_agent.py).                    *)
(*                                                                         *)
(* Time is counted in whole seconds.  time.time() is a float, but every    *)
(* threshold the code compares it with (timeout_seconds, 30) is a whole    *)
(* number, so a clock that is read rounded up decides every comparison     *)
(* the way the float does; a first reading of 1 stands for "a little more  *)
(* than nothing".  time.sleep(n) lasts n seconds or a little more, a read  *)
(* of the table takes a little time: both are the jitter of a pass.        *)
(***************************************************************************)
EXTENDS Integers, Sequences, FiniteSets, TLC

(* ------------------------------ bounds --------------------------------- *)

\* Largest overall polling timeout a caller passes.
MaxTimeout == 36

\* How many seconds later than asked a sleep may return (scheduling, the
\* time a read of the table takes).
MaxJitter == 1

\* How many executions of one task's Agent may be running at once.
MaxAgents == 2

(* ------------------------- program constants --------------------------- *)

\* poll_for_completion's default poll_interval, the one dispatch_and_monitor
\* uses.
PollInterval == 5

\* "if elapsed > 30": how long a missing record is tolerated.
GraceWindow == 30

\* summary[:200]
SummaryCut == 200

\* "if self.timeout < 60" (the Google-Ads dispatcher's validate_inputs): the
\* least timeout a dispatch is to accept.
MinTimeout == 60

\* Python's None, as a row's column value (JSON null).
Null == "<null>"

\* None as a summary: a summary is modelled by its length, and no length is
\* negative.
SummaryNull == -1

\* AGENT_SKILL_MAP: the short names it resolves (one of its seven keys is
\* enough: all are treated alike), and its value for a name.
AGENT_SKILL_MAP_KEYS == {"data_placement"}

AGENT_SKILL_MAP_get(agent_name) ==
    IF agent_name \in AGENT_SKILL_MAP_KEYS
    THEN "meta-ads-data-placement-analyst"
    ELSE Null

(* ------------------------------ inputs --------------------------------- *)

\* Agent names a caller of dispatch_and_monitor passes: a key of the table
\* and a name that is not one.
AgentNames == AGENT_SKILL_MAP_KEYS \cup {"no_such_agent"}

\* The rows of agent_deliverables, by id.
TaskIds == {"t1"}

\* Timeouts a caller passes: none at all, less than one poll interval and a
\* bit, around the grace window, and the largest.
Timeouts == {0, 7, 31, MaxTimeout}

\* Summaries an Agent passes to update_agent_deliverable: None (the
\* parameter's default), the empty string, and one longer than poll
\* reports.
AgentSummaries == {SummaryNull, 0, SummaryCut + 1}

\* Statuses an Agent passes to update_agent_deliverable ("Mark agent
\* deliverable as complete or blocked").
AgentStatuses == {"DELIVERED", "BLOCKED"}

\* What running ssh can end in: exit status 0, a nonzero exit status,
\* subprocess.TimeoutExpired, FileNotFoundError, any other exception.
SshOutcomes == {"exit0", "nonzero", "timeout", "no_client", "error"}

(* ------------------------------- state --------------------------------- *)

VARIABLES
    store,        \* agent_deliverables: TaskIds -> row, None where none
    agents,       \* TaskIds -> number of running Agent executions
    pc,           \* where the caller's call stands
    call,         \* the running call: "dispatch", "poll", "run" or "none"
    args,         \* the call's arguments
    now,          \* time.time() as last read, in seconds since the call began
    start_time,   \* poll_for_completion's start_time
    poll_count,   \* poll_for_completion's poll_count
    deliverable,  \* poll_for_completion's deliverable (the last read)
    result,       \* what poll_for_completion returned: (status, summary)
    outcome,      \* which return of dispatch_and_monitor was taken
    exit_code,    \* dispatch_and_monitor's return value
    hist          \* what happened in this call (history, not program state)

vars == <<store, agents, pc, call, args, now, start_time,
          poll_count, deliverable, result, outcome, exit_code, hist>>

(* ------------------------------ the table ------------------------------ *)

Terminal == {"DELIVERED", "BLOCKED"}

\* A row of agent_deliverables, as the REST endpoint returns it: every
\* column is present, an unset one as null.
Row(status, summary, delivered_at, blocked_reason) ==
    [status |-> status, summary |-> summary, delivered_at |-> delivered_at,
     blocked_reason |-> blocked_reason]

\* No row with that id; also what get_deliverable_status returns for it
\* (None).
None == Row("<no row>", SummaryNull, Null, Null)

\* The row as the upstream scheduler creates it.
PendingRow == Row("PENDING", SummaryNull, Null, Null)

\* brand_id, cycle_id and agent_name of a task's row, which
\* update_agent_deliverable selects rows by.
TaskKey(t) ==
    IF t = "t3" THEN "brand1/cycle1/creative_analyst"
    ELSE "brand1/cycle1/data_placement"

\* get_deliverable_status taking every row for a finished one.
get_deliverable_status_optimistic(task_id, http_ok) ==
    IF http_ok /\ store[task_id] # None
    THEN [store[task_id] EXCEPT !.status = "DELIVERED"]
    ELSE None

\* requests.get(...?id=eq.task_id): the row when the request answers 200
\* with a non-empty list, None when it answers anything else, answers an
\* empty list, or raises.
get_deliverable_status(task_id, http_ok) ==
    IF http_ok /\ store[task_id] # None THEN store[task_id] ELSE None

\* update_deliverable_to_in_progress writing the status the row had before
\* any dispatch.
update_deliverable_to_pending(task_id, http_ok) ==
    IF http_ok /\ store[task_id] # None
    THEN [store EXCEPT ![task_id].status = "PENDING"]
    ELSE store

\* update_deliverable_to_in_progress writing the outcome of a dispatch
\* that fails.
update_deliverable_to_failed(task_id, http_ok) ==
    IF http_ok /\ store[task_id] # None
    THEN [store EXCEPT ![task_id].status = "DISPATCH_FAILED"]
    ELSE store

\* requests.patch(...?id=eq.task_id, json={"status": "IN_PROGRESS", ...}):
\* the table after it.  A request that fails changes nothing; one that
\* succeeds changes the row with that id, when there is one.
update_deliverable_to_in_progress(task_id, http_ok) ==
    IF http_ok /\ store[task_id] # None
    THEN [store EXCEPT ![task_id].status = "IN_PROGRESS"]
    ELSE store

\* SupabaseClient.update_agent_deliverable: the table after
\* update(update_data).eq(brand_id).eq(cycle_id).eq(agent_name), for the
\* Agent that was started for task t.  summary is written only when it is
\* truthy (neither None nor empty).
update_agent_deliverable(t, status, summary) ==
    [u \in DOMAIN store |->
        IF store[u] # None /\ TaskKey(u) = TaskKey(t)
        THEN [store[u] EXCEPT
                !.status = status,
                !.delivered_at = IF status = "DELIVERED" THEN "utcnow" ELSE Null,
                !.summary = IF summary > 0 THEN summary ELSE @]
        ELSE store[u]]

(* ------------------------- poll_for_completion ------------------------- *)

\* The summary string of a result, by the parts that vary: which message it
\* is, and the values formatted into it.
Msg(kind, secs, polls, delivered_at, summary, blocked_reason) ==
    [kind |-> kind, secs |-> secs, polls |-> polls,
     delivered_at |-> delivered_at, summary |-> summary,
     blocked_reason |-> blocked_reason]

NoMsg == Msg("<none>", 0, 0, Null, SummaryNull, Null)

NoResult == <<"<none>", NoMsg>>

\* TimedOut with the timeout taken for minutes.
TimedOut_minutes(elapsed, timeout_seconds) == elapsed > timeout_seconds * 60

\* "if elapsed > timeout_seconds"
TimedOut(elapsed, timeout_seconds) == elapsed > timeout_seconds

\* "if elapsed > 30", for a read that found nothing.
GraceOver(elapsed) == elapsed > GraceWindow

\* summary[:200], on lengths.
Cut(summary) == IF summary > SummaryCut THEN SummaryCut ELSE summary

\* Str with an empty value replaced by a default, as by
\* "blocked_reason or 'Unknown reason'".
Str_or_default(x) == IF x \in {Null, ""} THEN "Unknown reason" ELSE x

\* A column's value as an f-string formats it: a string as it is, None as
\* "None".
Str(x) == IF x = Null THEN "None" ELSE x

\* poll_pass returning the status it read whenever the row has one, as the
\* docstring's list of statuses has it.
poll_pass_returns_status(elapsed, timeout_seconds, polls, d) ==
    IF TimedOut(elapsed, timeout_seconds)
    THEN [ends |-> "return",
          result |-> <<"TIMEOUT",
                       Msg("did not complete", timeout_seconds, polls,
                           Null, SummaryNull, Null)>>]
    ELSE IF d = None
    THEN [ends |-> "sleep", result |-> NoResult]
    ELSE [ends |-> "return", result |-> <<d.status, NoMsg>>]

\* One pass through the body of "while True", after elapsed and poll_count
\* are set, for what the read returned: what the pass ends in ("return",
\* "sleep" or "raise") and, for a return, the result.  d is read only when
\* the timeout check lets the pass get to the read.
poll_pass(elapsed, timeout_seconds, polls, d) ==
    IF TimedOut(elapsed, timeout_seconds)
    THEN [ends |-> "return",
          result |-> <<"TIMEOUT",
                       Msg("did not complete", timeout_seconds, polls,
                           Null, SummaryNull, Null)>>]
    ELSE IF d = None
    THEN IF GraceOver(elapsed)
         THEN [ends |-> "return",
               result |-> <<"TIMEOUT",
                            Msg("not found", 0, 0, Null, SummaryNull, Null)>>]
         ELSE [ends |-> "sleep", result |-> NoResult]
    ELSE IF d.status = "DELIVERED"
    THEN IF d.summary = SummaryNull
         THEN \* None[:200]: TypeError
              [ends |-> "raise", result |-> NoResult]
         ELSE [ends |-> "return",
               result |-> <<"DELIVERED",
                            Msg("completed", 0, 0, Str(d.delivered_at),
                                Cut(d.summary), Null)>>]
    ELSE IF d.status = "BLOCKED"
    THEN [ends |-> "return",
          result |-> <<"BLOCKED",
                       Msg("blocked", 0, 0, Null, SummaryNull,
                           Str(d.blocked_reason))>>]
    ELSE [ends |-> "sleep", result |-> NoResult]

(* ------------------------ dispatch_and_monitor ------------------------- *)

\* Step 4 of dispatch_and_monitor: the return value for poll's status.
ExitCodeFor(status) ==
    CASE status = "DELIVERED" -> 0
      [] status = "BLOCKED" -> 2
      [] status = "TIMEOUT" -> 1
      [] OTHER -> 1

\* "if not success: ... return 1"
TriggerFailedExit == 1

\* The name the contract gives each return of dispatch_and_monitor.
OutcomeFor(status) ==
    IF status \in {"DELIVERED", "BLOCKED", "TIMEOUT"} THEN status
    ELSE "UNKNOWN"

\* trigger_success with result.returncode not looked at.
trigger_success_any_exit(skill_name, ssh) == skill_name # Null

\* trigger_agent_ssh's success flag for what ssh ended in.
trigger_success(skill_name, ssh) == skill_name # Null /\ ssh = "exit0"

(* ------------------------------ history -------------------------------- *)

NoCall ==
    [pc |-> "<none>", result |-> NoResult, read_failed |-> FALSE,
     timeout_seconds |-> 0]

\* The history of a call that begins.  first is how the call before it
\* ended when that was a poll of the same task.
FreshHist(first, stable_prev) ==
    [row_at_mark |-> FALSE,  \* the row was there when Step 1 ran
     patch_ok    |-> FALSE,  \* the PATCH to IN_PROGRESS was answered 200/204
     writes      |-> 0,      \* rows the Dispatcher has changed in this call
     triggers    |-> 0,      \* times ssh was run for the trigger
     ssh         |-> "<none>", \* what the last ssh ended in
     reads       |-> 0,      \* reads of the table by poll
     read_log    |-> "none", \* what the reads returned, see ReadLog
     read_failed |-> FALSE,  \* some read's request failed
     delivered_t |-> -1,     \* when, while the call ran, the row turned
                             \* DELIVERED (and stayed so); -1: it has not
     first       |-> first,
     stable_prev |-> stable_prev, \* terminal since the call before began
     stable      |-> FALSE,  \* terminal since this call began
     others      |-> FALSE,  \* someone else changed the row after Step 1
     after_timeout |-> FALSE, \* the call is a dispatch of a task whose
                             \* dispatch before returned TIMEOUT and whose
                             \* Agent was still running then
     validations |-> 0,      \* times run called validate_inputs
     valid       |-> FALSE,  \* what validate_inputs returned
     ssh_tests   |-> 0,      \* times run called test_ssh_connection
     ssh_test    |-> "<none>"] \* what its ssh ended in

\* What the reads of one poll returned so far: nothing but "not found"
\* ("absent"); nothing but IN_PROGRESS rows ("in_progress"); nothing but
\* rows, none with a terminal status ("nonterminal"); "not found" and from
\* some read on rows without a terminal status ("appeared"); a row with a
\* terminal status in some read ("terminal"); anything else ("mixed").
ReadLog(log, d) ==
    LET this == IF d = None THEN "absent"
                ELSE IF d.status \in Terminal THEN "terminal"
                ELSE IF d.status = "IN_PROGRESS" THEN "in_progress"
                ELSE "nonterminal"
    IN IF this = "terminal" \/ log = "terminal" THEN "terminal"
       ELSE IF log \in {"none", this} THEN this
       ELSE IF log \in {"absent", "appeared"} /\ this # "absent"
       THEN "appeared"
       ELSE IF log \in {"in_progress", "nonterminal"} /\ this # "absent"
       THEN "nonterminal"
       ELSE "mixed"

\* The history after the table changed from old to new at time t_now, for
\* the call's task; running says that the call has not returned yet.
HistStore(h, task_id, old, new, t_now, running) ==
    [h EXCEPT
       !.delivered_t =
           IF ~running THEN @
           ELSE IF new[task_id].status # "DELIVERED" THEN -1
           ELSE IF old[task_id].status # "DELIVERED" THEN t_now
           ELSE @,
       !.stable_prev = @ /\ new[task_id] = old[task_id],
       !.stable = @ /\ new[task_id] = old[task_id],
       !.others = @ \/ new[task_id] # old[task_id]]

(* ------------------------------ actions -------------------------------- *)

NoArgs == [agent_name |-> "<none>", task_id |-> "<none>", timeout_seconds |-> 0]

Init ==
    /\ store = [t \in TaskIds |-> None]
    /\ agents = [t \in TaskIds |-> 0]
    /\ pc = "idle"
    /\ call = "none"
    /\ args = NoArgs
    /\ now = 0
    /\ start_time = 0
    /\ poll_count = 0
    /\ deliverable = None
    /\ result = NoResult
    /\ outcome = "<none>"
    /\ exit_code = -1
    /\ hist = FreshHist(NoCall, FALSE)

Returned == pc \in {"idle", "done", "raised"}

\* The upstream scheduler creates the task's row, in PENDING.
CreateRecord(t) ==
    /\ store[t] = None
    /\ store' = [store EXCEPT ![t] = PendingRow]
    /\ hist' = IF args.task_id = t
               THEN HistStore(hist, t, store, store', now, ~Returned)
               ELSE hist
    /\ UNCHANGED <<agents, pc, call, args, now, start_time,
                   poll_count, deliverable, result, outcome, exit_code>>

\* A running Agent of task t reports its end.
AgentWrite(t, status, summary) ==
    /\ agents[t] > 0
    /\ agents' = [agents EXCEPT ![t] = @ - 1]
    /\ store' = update_agent_deliverable(t, status, summary)
    /\ hist' = IF args.task_id \in TaskIds
               THEN HistStore(hist, args.task_id, store, store', now, ~Returned)
               ELSE hist
    /\ UNCHANGED <<pc, call, args, now, start_time,
                   poll_count, deliverable, result, outcome, exit_code>>

\* A caller runs dispatch_and_monitor(agent_name, _, task_id, _, _,
\* timeout_seconds): up to "Step 1".
Dispatch(agent_name, task_id, timeout_seconds) ==
    /\ Returned
    /\ agents[task_id] < MaxAgents
    /\ call' = "dispatch"
    /\ pc' = "mark"
    /\ args' = [agent_name |-> agent_name, task_id |-> task_id,
                timeout_seconds |-> timeout_seconds]
    /\ now' = 0
    /\ start_time' = 0
    /\ poll_count' = 0
    /\ deliverable' = None
    /\ result' = NoResult
    /\ outcome' = "<none>"
    /\ exit_code' = -1
    /\ hist' = [FreshHist(NoCall, FALSE) EXCEPT
                  !.after_timeout = /\ call = "dispatch"
                                    /\ pc = "done"
                                    /\ outcome = "TIMEOUT"
                                    /\ args.task_id = task_id
                                    /\ agents[task_id] > 0]
    /\ UNCHANGED <<store, agents>>

\* Step 1: self.update_deliverable_to_in_progress(task_id), its return
\* value dropped.
MarkInProgress ==
    /\ pc = "mark"
    /\ \E http_ok \in BOOLEAN :
         /\ store' = update_deliverable_to_in_progress(args.task_id, http_ok)
         /\ hist' = [HistStore(hist, args.task_id, store, store', now, TRUE)
                       EXCEPT
                       !.row_at_mark = store[args.task_id] # None,
                       !.patch_ok = http_ok,
                       !.others = FALSE,
                       !.writes = IF http_ok /\ store[args.task_id] # None
                                  THEN @ + 1 ELSE @]
    /\ pc' = "trigger"
    /\ UNCHANGED <<agents, call, args, now, start_time,
                   poll_count, deliverable, result, outcome, exit_code>>

\* TriggerFailed going back to the trigger step.
TriggerFailed_retry ==
    /\ pc' = "trigger"
    /\ UNCHANGED <<outcome, exit_code, start_time, poll_count>>

\* "if not success: ... return 1"
TriggerFailed ==
    /\ pc' = "done"
    /\ outcome' = "DISPATCH_FAILED"
    /\ exit_code' = TriggerFailedExit
    /\ UNCHANGED <<start_time, poll_count>>

\* poll_for_completion begins: start_time = time.time(), poll_count = 0.
PollBegins(time) ==
    /\ pc' = "poll"
    /\ start_time' = time
    /\ poll_count' = 0

\* Step 2 for an agent name AGENT_SKILL_MAP does not hold: trigger_agent_ssh
\* returns (False, "Unknown agent") and runs nothing.
TriggerUnknownAgent ==
    /\ pc = "trigger"
    /\ AGENT_SKILL_MAP_get(args.agent_name) = Null
    /\ TriggerFailed
    /\ UNCHANGED <<store, agents, call, args, now, deliverable, result, hist>>

\* RemoteStarts refusing a task that has an Agent running.
RemoteStarts_exclusive(ssh) == ssh = "exit0" /\ agents[args.task_id] = 0

\* Whether the remote side runs the Agent, for what ssh ended in: it does
\* when "openclaw run" was accepted, which is when ssh exits 0.
RemoteStarts(ssh) == ssh = "exit0"

\* Step 2 otherwise: subprocess.run(["ssh", host, "openclaw run ..."]), and
\* what dispatch_and_monitor does with its success flag.
TriggerSsh(ssh) ==
    /\ pc = "trigger"
    /\ AGENT_SKILL_MAP_get(args.agent_name) # Null
    /\ agents' = IF RemoteStarts(ssh)
                 THEN [agents EXCEPT ![args.task_id] = @ + 1]
                 ELSE agents
    /\ hist' = [hist EXCEPT !.triggers = @ + 1, !.ssh = ssh]
    /\ IF trigger_success(AGENT_SKILL_MAP_get(args.agent_name), ssh)
       THEN /\ PollBegins(now)
            /\ UNCHANGED <<outcome, exit_code>>
       ELSE TriggerFailed
    /\ UNCHANGED <<store, call, args, now, deliverable, result>>

\* A caller runs poll_for_completion(task_id, timeout_seconds) itself.
PollCall(task_id, timeout_seconds) ==
    /\ Returned
    /\ hist' = [(IF call = "poll" /\ pc # "idle" /\ args.task_id = task_id
                 THEN FreshHist([pc |-> pc, result |-> result,
                                read_failed |-> hist.read_failed,
                                timeout_seconds |-> args.timeout_seconds],
                               hist.stable)
                ELSE FreshHist(NoCall, FALSE))
                 EXCEPT !.stable = store[task_id].status \in Terminal]
    /\ call' = "poll"
    /\ args' = [agent_name |-> "<none>", task_id |-> task_id,
                timeout_seconds |-> timeout_seconds]
    /\ now' = 0
    /\ PollBegins(0)
    /\ deliverable' = None
    /\ result' = NoResult
    /\ outcome' = "<none>"
    /\ exit_code' = -1
    /\ UNCHANGED <<store, agents>>

\* Report with the loop going on after a TIMEOUT was reported.
Report_keeps_polling(res) ==
    /\ pc' = IF res[1] = "TIMEOUT" THEN "poll" ELSE "done"
    /\ result' = res
    /\ IF call = "dispatch"
       THEN /\ outcome' = OutcomeFor(res[1])
            /\ exit_code' = ExitCodeFor(res[1])
       ELSE UNCHANGED <<outcome, exit_code>>

\* Steps 3 and 4 of dispatch_and_monitor for what poll returned; a poll
\* that was called directly returns to its caller.
Report(res) ==
    /\ pc' = "done"
    /\ result' = res
    /\ IF call = "dispatch"
       THEN /\ outcome' = OutcomeFor(res[1])
            /\ exit_code' = ExitCodeFor(res[1])
       ELSE UNCHANGED <<outcome, exit_code>>

\* An exception leaves poll_for_completion; nothing in dispatch_and_monitor
\* or main catches it, and the interpreter ends with status 1.
Raise ==
    /\ pc' = "raised"
    /\ result' = NoResult
    /\ IF call = "dispatch"
       THEN /\ outcome' = "UNCAUGHT"
            /\ exit_code' = 1
       ELSE UNCHANGED <<outcome, exit_code>>

\* One pass through "while True", with the time.sleep(poll_interval) that
\* ended the pass before it (the first pass follows none): the clock is
\* read late seconds later than the earliest it can be, then elapsed,
\* poll_count, the timeout check, the read and what follows it.
PollIteration(late) ==
    /\ pc = "poll"
    /\ \E http_ok \in BOOLEAN :
         LET slept == IF poll_count = 0 THEN 0 ELSE PollInterval
             time == now + slept + late
             elapsed == time - start_time
             reads == ~TimedOut(elapsed, args.timeout_seconds)
             d == IF reads
                  THEN get_deliverable_status(args.task_id, http_ok)
                  ELSE deliverable
             pass == poll_pass(elapsed, args.timeout_seconds,
                               poll_count + 1, d)
         IN /\ now' = time
            /\ poll_count' = poll_count + 1
            /\ deliverable' = d
            /\ hist' = IF reads
                       THEN [hist EXCEPT
                               !.reads = @ + 1,
                               !.read_log = ReadLog(@, d),
                               !.read_failed = @ \/ ~http_ok]
                       ELSE hist
            /\ CASE pass.ends = "sleep" ->
                      UNCHANGED <<pc, result, outcome, exit_code>>
                 [] pass.ends = "return" -> Report(pass.result)
                 [] pass.ends = "raise" -> Raise
    /\ UNCHANGED <<store, agents, call, args, start_time>>

\* The table and the Agents, which run whatever the caller does.
Environment ==
    \/ \E t \in TaskIds : CreateRecord(t)
    \/ \E t \in TaskIds, st \in AgentStatuses, su \in AgentSummaries :
          AgentWrite(t, st, su)

Next ==
    \/ Environment
    \/ \E a \in AgentNames, t \in TaskIds, to \in Timeouts : Dispatch(a, t, to)
    \/ MarkInProgress
    \/ TriggerUnknownAgent
    \/ \E ssh \in SshOutcomes : TriggerSsh(ssh)
    \/ \E late \in 0 .. MaxJitter : PollIteration(late)

\* Callers that run dispatch_and_monitor, one call after the other.
Spec == Init /\ [][Next]_vars

\* The rows a task can have when a caller polls it: none, the scheduler's,
\* and what the Dispatcher's and the Agents' writes leave.
PollRows ==
    {None, PendingRow}
      \cup {Row("IN_PROGRESS", su, at, Null) :
              su \in {SummaryNull, SummaryCut + 1}, at \in {Null, "utcnow"}}
      \cup {Row("DELIVERED", su, "utcnow", Null) :
              su \in {SummaryNull, SummaryCut + 1}}
      \cup {Row("BLOCKED", su, Null, Null) :
              su \in {SummaryNull, SummaryCut + 1}}

InitPoll ==
    /\ store \in [TaskIds -> PollRows]
    /\ agents \in [TaskIds -> 0 .. 1]
    /\ pc = "idle"
    /\ call = "none"
    /\ args = NoArgs
    /\ now = 0
    /\ start_time = 0
    /\ poll_count = 0
    /\ deliverable = None
    /\ result = NoResult
    /\ outcome = "<none>"
    /\ exit_code = -1
    /\ hist = FreshHist(NoCall, FALSE)

NextPoll ==
    \/ Environment
    \/ \E t \in TaskIds, to \in Timeouts : PollCall(t, to)
    \/ \E late \in 0 .. MaxJitter : PollIteration(late)

\* Callers that run poll_for_completion, one call after the other, against
\* a table in any state dispatches can leave it in.
SpecPoll == InitPoll /\ [][NextPoll]_vars

\* Every row of the table is one of PollRows.
RowsArePollRows == \A t \in TaskIds : store[t] \in PollRows

(* ------------------------ dispatches of any row ----------------------- *)

\* Statuses a row can hold when whoever writes the table is not held to the
\* four of the contract: null (no status), the four, and another value.
AnyStatuses ==
    {Null, "PENDING", "IN_PROGRESS", "FAILED", "DELIVERED", "BLOCKED"}

\* blocked_reason as an Agent that reports BLOCKED leaves it: null, the
\* empty string, a long text.
BlockedReasons == {Null, "", "a reason of 500 characters"}

AnyRows ==
    {None}
      \cup {Row(st, su, IF st = "DELIVERED" THEN "utcnow" ELSE Null, br) :
              st \in AnyStatuses, su \in {SummaryNull, SummaryCut + 1},
              br \in BlockedReasons}

InitAnyRows ==
    /\ store \in [TaskIds -> AnyRows]
    /\ agents = [t \in TaskIds |-> 0]
    /\ pc = "idle"
    /\ call = "none"
    /\ args = NoArgs
    /\ now = 0
    /\ start_time = 0
    /\ poll_count = 0
    /\ deliverable = None
    /\ result = NoResult
    /\ outcome = "<none>"
    /\ exit_code = -1
    /\ hist = FreshHist(NoCall, FALSE)

\* Dispatches with no Agent reporting: a row stays as it is unless the
\* Dispatcher marks it.
NextAnyRows ==
    \/ \E t \in TaskIds : CreateRecord(t)
    \/ \E a \in AgentNames, t \in TaskIds, to \in Timeouts : Dispatch(a, t, to)
    \/ MarkInProgress
    \/ TriggerUnknownAgent
    \/ \E ssh \in SshOutcomes : TriggerSsh(ssh)
    \/ \E late \in 0 .. MaxJitter : PollIteration(late)

\* Callers that dispatch tasks whose rows hold anything.
SpecAnyRows == InitAnyRows /\ [][NextAnyRows]_vars

(* ------------------ Agents of several tasks reporting ------------------ *)

\* Rows of a table with more tasks than one: two tasks of the same brand,
\* cycle and agent, and a task of another agent.
AllTasks == TaskIds \cup {"t2", "t3"}

InitAgents ==
    /\ store \in [AllTasks ->
                    {None, PendingRow,
                     Row("IN_PROGRESS", SummaryNull, Null, Null),
                     Row("DELIVERED", SummaryCut + 1, "utcnow", Null)}]
    /\ agents \in [AllTasks -> 0 .. 1]
    /\ pc = "idle"
    /\ call = "none"
    /\ args = NoArgs
    /\ now = 0
    /\ start_time = 0
    /\ poll_count = 0
    /\ deliverable = None
    /\ result = NoResult
    /\ outcome = "<none>"
    /\ exit_code = -1
    /\ hist = FreshHist(NoCall, FALSE)

NextAgents ==
    \/ \E t \in AllTasks : CreateRecord(t)
    \/ \E t \in AllTasks, st \in AgentStatuses, su \in AgentSummaries :
          AgentWrite(t, st, su)

\* The Agents of several tasks, each reporting its end once.
SpecAgents == InitAgents /\ [][NextAgents]_vars

(* ------------- the Google-Ads dispatcher (AgentDispatcher.run) --------- *)

\* AGENT_NAMES: the short names it resolves (one of its seven keys), and
\* its value for one.
AGENT_NAMES_KEYS == {"data-placement"}

AGENT_NAMES_get(agent) == "google-ads-data-placement-analyst"

\* The full names it resolves to.
AGENT_NAMES_VALUES == {AGENT_NAMES_get(k) : k \in AGENT_NAMES_KEYS}

\* __init__'s timeout default, which is also --timeout's.
DefaultTimeout == 1800

\* Strings uuid.UUID accepts, among those callers pass here.
Uuids == TaskIds \cup {"cycle1", "brand1"}

\* --agent: a short name, a full name, a name of no agent, the empty string.
GoogleAgents ==
    AGENT_NAMES_KEYS \cup {"google-ads-data-placement-analyst",
                           "no-such-agent", ""}

\* --cycle, --task, --brand: an identifier and a string that is none.
GoogleCycles == {"cycle1", "not-a-uuid"}

GoogleTasks == TaskIds \cup {"not-a-uuid"}

GoogleBrands == {"brand1", "not-a-uuid"}

\* --timeout: around the floor, and the default.
GoogleTimeouts == {0, MinTimeout - 1, MinTimeout, DefaultTimeout}

\* What "ssh ... echo CONNECTION_OK" can end in: exit status 0 with the
\* banner in stdout, exit status 0 without it, a nonzero exit status,
\* subprocess.TimeoutExpired, any other exception.
SshTestOutcomes == {"ok", "exit0_no_banner", "nonzero", "timeout", "error"}

\* __init__: "Resolve agent short name to full name".
agent_full(agent) ==
    IF agent \in AGENT_NAMES_KEYS THEN AGENT_NAMES_get(agent) ELSE agent

\* validate_inputs: uuid.UUID parses the three identifiers, agent_full is
\* truthy, the timeout is not below 60.
validate_inputs(a) ==
    /\ a.cycle_id \in Uuids
    /\ a.task_id \in Uuids
    /\ a.brand_id \in Uuids
    /\ a.agent_full # ""
    /\ ~(a.timeout < MinTimeout)

\* test_ssh_connection with stdout not looked at.
test_ssh_connection_any_exit0(o) == o \in {"ok", "exit0_no_banner"}

\* test_ssh_connection's return value.
test_ssh_connection(o) == o = "ok"

\* trigger_agent's return value for what ssh ended in.
trigger_agent(ssh) == ssh = "exit0"

\* main: sys.exit(0 if success else 1)
ExitStatus(success) == IF success THEN 0 ELSE 1

\* "self.print_summary(False); return False", and main's exit.
RunFailed ==
    /\ pc' = "done"
    /\ outcome' = "DISPATCH_FAILED"
    /\ exit_code' = ExitStatus(FALSE)

\* main builds an AgentDispatcher and calls run().
Run(agent, cycle_id, task_id, brand_id, timeout) ==
    /\ Returned
    /\ task_id \in TaskIds => agents[task_id] < MaxAgents
    /\ call' = "run"
    /\ pc' = "validate"
    /\ args' = [agent |-> agent, agent_full |-> agent_full(agent),
                cycle_id |-> cycle_id, task_id |-> task_id,
                brand_id |-> brand_id, timeout |-> timeout]
    /\ now' = 0
    /\ start_time' = 0
    /\ poll_count' = 0
    /\ deliverable' = None
    /\ result' = NoResult
    /\ outcome' = "<none>"
    /\ exit_code' = -1
    /\ hist' = FreshHist(NoCall, FALSE)
    /\ UNCHANGED <<store, agents>>

\* Step 1 of run.
ValidateInputs ==
    /\ pc = "validate"
    /\ IF validate_inputs(args)
       THEN pc' = "test_ssh" /\ UNCHANGED <<outcome, exit_code>>
       ELSE RunFailed
    /\ hist' = [hist EXCEPT !.validations = @ + 1,
                            !.valid = validate_inputs(args)]
    /\ UNCHANGED <<store, agents, call, args, now, start_time,
                   poll_count, deliverable, result>>

\* Step 2 of run.
TestSshConnection(o) ==
    /\ pc = "test_ssh"
    /\ IF test_ssh_connection(o)
       THEN pc' = "trigger_agent" /\ UNCHANGED <<outcome, exit_code>>
       ELSE RunFailed
    /\ hist' = [hist EXCEPT !.ssh_tests = @ + 1, !.ssh_test = o]
    /\ UNCHANGED <<store, agents, call, args, now, start_time,
                   poll_count, deliverable, result>>

\* Steps 3 and 4 of run: ssh "openclaw run {agent_full} ...", then the
\* summary and "return True"; main exits with 0.
TriggerAgent(ssh) ==
    /\ pc = "trigger_agent"
    /\ hist' = [hist EXCEPT !.triggers = @ + 1, !.ssh = ssh]
    /\ agents' = IF RemoteStarts(ssh) /\ args.task_id \in TaskIds
                 THEN [agents EXCEPT ![args.task_id] = @ + 1]
                 ELSE agents
    /\ IF trigger_agent(ssh)
       THEN /\ pc' = "done"
            /\ outcome' = "DISPATCHED"
            /\ exit_code' = ExitStatus(TRUE)
       ELSE RunFailed
    /\ UNCHANGED <<store, call, args, now, start_time,
                   poll_count, deliverable, result>>

NextGoogle ==
    \/ Environment
    \/ \E a \in GoogleAgents, c \in GoogleCycles, t \in GoogleTasks,
          b \in GoogleBrands, to \in GoogleTimeouts : Run(a, c, t, b, to)
    \/ ValidateInputs
    \/ \E o \in SshTestOutcomes : TestSshConnection(o)
    \/ \E ssh \in SshOutcomes : TriggerAgent(ssh)

\* Callers that run the Google-Ads dispatcher, one run after the other.
SpecGoogle == Init /\ [][NextGoogle]_vars

(* ------------------------------- claims -------------------------------- *)

\* The call is a dispatch and its trigger step has run ssh.
Triggered == call = "dispatch" /\ hist.triggers > 0

\* C1: in a dispatch, ssh is run for the trigger only after the write of
\* IN_PROGRESS succeeded.  Stated for a task whose row was there at Step 1:
\* the PATCH request was answered with success and changed the row.
C1_TriggerOnlyAfterInProgressWritten ==
    (Triggered /\ hist.row_at_mark) => (hist.patch_ok /\ hist.writes >= 1)

\* C2: when the trigger does not succeed (ssh exits nonzero, is killed
\* after 30 s, cannot be run), the dispatch has returned DISPATCH_FAILED
\* without a single pass of the polling loop and without a read of the
\* table.
C2_TriggerFailureSkipsPolling ==
    (Triggered /\ hist.ssh # "exit0")
        => /\ pc = "done"
           /\ outcome = "DISPATCH_FAILED"
           /\ exit_code = TriggerFailedExit
           /\ poll_count = 0
           /\ hist.reads = 0
           /\ result = NoResult

\* C2's case: ssh exited nonzero and the dispatch has ended.
C2_Witness ==
    Triggered /\ hist.ssh = "nonzero" /\ pc = "done"

\* C3, its last part: a row whose status is DELIVERED or BLOCKED keeps
\* that status in every step, whoever writes.
C3_TerminalStatusNeverChanges ==
    [][\A t \in TaskIds :
         store[t].status \in Terminal
            => store'[t].status = store[t].status]_vars

\* dispatch_and_monitor's return value for each outcome of the contract.
ExitOf(o) ==
    IF o = "DISPATCH_FAILED" THEN TriggerFailedExit ELSE ExitCodeFor(o)

\* C4: the exit code of a dispatch that has ended is the exit code of no
\* other outcome than its own.
C4_ExitCodeTellsOutcome ==
    (call = "dispatch" /\ pc = "done")
        => \A o \in {"DELIVERED", "BLOCKED", "TIMEOUT", "DISPATCH_FAILED"} :
              o # outcome => ExitOf(o) # exit_code

\* C5: a dispatch that wrote IN_PROGRESS, whose trigger succeeded, whose
\* row turned DELIVERED at a time before the timeout and stayed so, with a
\* summary, and whose reads all went through, has ended with DELIVERED
\* once it has ended, at the latest one poll interval (and the lateness of
\* one sleep) after.
C5_DeliveredBeforeTimeoutIsReported ==
    (/\ call = "dispatch"
     /\ pc \in {"done", "raised"}
     /\ hist.ssh = "exit0"
     /\ hist.writes = 1
     /\ hist.delivered_t >= 0
     /\ hist.delivered_t < args.timeout_seconds
     /\ store[args.task_id].summary # SummaryNull
     /\ ~hist.read_failed)
        => /\ outcome = "DELIVERED"
           /\ now <= hist.delivered_t + PollInterval + MaxJitter

\* C6: after a pass whose read returned a row with status DELIVERED or
\* BLOCKED, poll has returned that status.
C6_TerminalReadIsReturnedAtOnce ==
    (call # "none" /\ deliverable # None /\ deliverable.status \in Terminal)
        => pc = "done" /\ result[1] = deliverable.status

\* C7: a poll all of whose reads returned the row with status IN_PROGRESS
\* runs no pass later than the first that finds the timeout exceeded, and
\* ends by returning TIMEOUT, with the "did not complete" message; it does
\* not raise.
C7_InProgressThroughoutEndsInTimeout ==
    (call # "none" /\ hist.read_log \in {"none", "in_progress"})
        => /\ pc # "raised"
           /\ pc = "poll" /\ poll_count > 0
                 => now - start_time <= args.timeout_seconds
           /\ pc = "done" /\ poll_count > 0
                 => /\ result[1] = "TIMEOUT"
                    /\ result[2].kind = "did not complete"
                    /\ now - start_time > args.timeout_seconds

\* C7's case: a poll that read the row several times, IN_PROGRESS each
\* time, and has returned.
C7_Witness ==
    /\ pc = "done"
    /\ hist.read_log = "in_progress"
    /\ hist.reads >= 2
    /\ result[1] = "TIMEOUT"

\* C8: a poll none of whose reads found the row and which ended later than
\* the grace window after it began has returned TIMEOUT with the "not
\* found" message.
C8_AbsentPastGraceIsNotFound ==
    (/\ call # "none"
     /\ pc \in {"done", "raised"}
     /\ hist.read_log = "absent"
     /\ now - start_time > GraceWindow)
        => /\ pc = "done"
           /\ result[1] = "TIMEOUT"
           /\ result[2].kind = "not found"

\* C9: once a dispatch has run ssh for the trigger, on a task whose row
\* was there at Step 1, the Dispatcher has changed the row exactly once
\* (and, as it takes no step that writes after Step 1, never does again).
C9_ExactlyOneWriteBeforeTrigger ==
    (Triggered /\ hist.row_at_mark) => hist.writes = 1

\* C10: two polls in a row, with the same timeout, of a task whose row was
\* DELIVERED or BLOCKED when the first began and has not changed since,
\* has a summary, all reads of both going through, return the same status
\* and summary, and not TIMEOUT.
C10_PollTwiceSameResult ==
    (/\ call = "poll"
     /\ pc \in {"done", "raised"}
     /\ hist.first # NoCall
     /\ hist.first.timeout_seconds = args.timeout_seconds
     /\ hist.stable_prev
     /\ ~hist.first.read_failed
     /\ ~hist.read_failed
     /\ store[args.task_id].summary # SummaryNull)
        => /\ pc = "done"
           /\ hist.first.pc = "done"
           /\ result = hist.first.result
           /\ result[1] # "TIMEOUT"

\* C11, for the agent name: a dispatch whose agent name AGENT_SKILL_MAP
\* does not resolve has, at no point, changed the task's row or run ssh.
C11_InvalidDispatchHasNoSideEffect ==
    (call = "dispatch" /\ AGENT_SKILL_MAP_get(args.agent_name) = Null)
        => hist.writes = 0 /\ hist.triggers = 0

\* C13: a dispatch whose timeout is below the floor of 60 seconds gets
\* neither to the trigger nor to the polling loop, and ends with
\* DISPATCH_FAILED when it ends.
C13_TimeoutBelowFloorIsRejected ==
    (call = "dispatch" /\ args.timeout_seconds < MinTimeout)
        => /\ hist.triggers = 0
           /\ pc # "poll"
           /\ poll_count = 0
           /\ pc = "done" => outcome = "DISPATCH_FAILED"

\* C14: whatever the row holds and whichever request fails, no exception
\* leaves a dispatch.
C14_NoExceptionLeavesDispatch ==
    call = "dispatch" => pc # "raised"

\* C15: a dispatch that has returned after ssh was killed by the trigger's
\* timeout (the channel did not answer) has run ssh more than once.
C15_ConnectivityFailureIsRetried ==
    (Triggered /\ hist.ssh = "timeout" /\ pc = "done") => hist.triggers >= 2

\* C16: in a dispatch whose ssh exited nonzero, ssh was run exactly once and
\* the dispatch has returned DISPATCH_FAILED.
C16_RemoteRejectionIsNotRetried ==
    (Triggered /\ hist.ssh = "nonzero")
        => /\ hist.triggers = 1
           /\ pc = "done"
           /\ outcome = "DISPATCH_FAILED"

\* C16's case: ssh exited nonzero after the row was marked, and the
\* dispatch is over.
C16_Witness ==
    /\ Triggered
    /\ hist.ssh = "nonzero"
    /\ hist.writes = 1
    /\ exit_code = TriggerFailedExit

\* C17: a dispatch that wrote IN_PROGRESS and then returned DISPATCH_FAILED
\* has written nothing else: the row, unless someone else changed it since,
\* still has status IN_PROGRESS.
C17_FailedTriggerLeavesInProgress ==
    (/\ call = "dispatch"
     /\ pc = "done"
     /\ outcome = "DISPATCH_FAILED"
     /\ hist.writes >= 1
     /\ ~hist.others)
        => /\ hist.writes = 1
           /\ store[args.task_id].status = "IN_PROGRESS"

\* C17's case: the row was marked, ssh was killed by its timeout, the
\* dispatch returned.
C17_Witness ==
    /\ call = "dispatch"
    /\ pc = "done"
    /\ outcome = "DISPATCH_FAILED"
    /\ hist.ssh = "timeout"
    /\ hist.writes = 1
    /\ ~hist.others
    /\ store[args.task_id].status = "IN_PROGRESS"

\* C19: a poll that returned TIMEOUT with the "not found" message is one
\* none of whose reads returned the row.
C19_NotFoundOnlyIfNeverFound ==
    (/\ call # "none"
     /\ pc = "done"
     /\ result[1] = "TIMEOUT"
     /\ result[2].kind = "not found")
        => hist.read_log = "absent"

\* C20: the step in which a dispatch gives up with TIMEOUT changes neither
\* the table nor the Agents and runs no ssh; from then on, until the caller
\* dispatches again, the dispatch stays returned, with the same result and
\* exit code, and neither writes nor runs ssh.
C20_TimeoutIsLocalAndFinal ==
    [][/\ (call = "dispatch" /\ outcome # "TIMEOUT" /\ outcome' = "TIMEOUT")
            => /\ store' = store
               /\ agents' = agents
               /\ hist'.triggers = hist.triggers
               /\ hist'.writes = hist.writes
       /\ (call = "dispatch" /\ outcome = "TIMEOUT" /\ pc' # "mark")
            => /\ pc = "done"
               /\ pc' = "done"
               /\ result' = result
               /\ outcome' = outcome
               /\ exit_code' = exit_code
               /\ hist'.triggers = hist.triggers
               /\ hist'.writes = hist.writes]_vars

\* C20's case: the dispatch marked the row, returned TIMEOUT, and the row
\* turned DELIVERED or BLOCKED only after that.
C20_Witness ==
    /\ call = "dispatch"
    /\ pc = "done"
    /\ outcome = "TIMEOUT"
    /\ hist.writes = 1
    /\ hist.delivered_t = -1
    /\ deliverable.status = "IN_PROGRESS"
    /\ store[args.task_id].status \in Terminal

\* C12: for an agent name that is no key of the short-name table (and no
\* full name in it either), ssh is never run for the trigger, and the run
\* has returned DISPATCH_FAILED when it has returned.
C12_UnknownAgentNeverTriggered ==
    (/\ call = "run"
     /\ args.agent \notin AGENT_NAMES_KEYS \cup AGENT_NAMES_VALUES)
        => /\ hist.triggers = 0
           /\ pc = "done" => outcome = "DISPATCH_FAILED"

\* C18: a dispatcher that has ended with exit code 0 has read the task's
\* row, and the read returned status DELIVERED.
C18_SuccessOnlyAfterDeliveredRead ==
    (call \in {"dispatch", "run"} /\ pc = "done" /\ exit_code = 0)
        => /\ hist.reads > 0
           /\ deliverable # None
           /\ deliverable.status = "DELIVERED"

C24_PollReturnsByTimeout ==
    call = "poll"
        => /\ pc # "raised"
           /\ (pc = "poll" /\ poll_count > 0)
                 => now - start_time <= args.timeout_seconds

\* C26: a dispatch whose first reads found no row, whose later reads found
\* it, whose row turned DELIVERED (with a summary) before the timeout, all
\* reads going through, has ended with DELIVERED once it has ended.
C26_LateRecordStillDelivered ==
    (/\ call = "dispatch"
     /\ pc \in {"done", "raised"}
     /\ hist.read_log \in {"appeared", "terminal"}
     /\ ~hist.row_at_mark
     /\ ~hist.read_failed
     /\ hist.delivered_t >= 0
     /\ hist.delivered_t < args.timeout_seconds
     /\ store[args.task_id].summary # SummaryNull)
        => result[1] = "DELIVERED"

\* C27: the step in which poll returns DELIVERED or BLOCKED is one that
\* read the row, and the row's status in the table at that moment is the
\* status returned; the step in which poll returns TIMEOUT follows no read
\* that returned a row with a terminal status.
C27_ResultIsWhatWasRead ==
    [][(call # "none" /\ pc = "poll" /\ pc' = "done")
          => /\ result'[1] \in Terminal
                  => /\ hist'.reads = hist.reads + 1
                     /\ deliverable' = store[args.task_id]
                     /\ store[args.task_id].status = result'[1]
             /\ result'[1] = "TIMEOUT" => hist'.read_log # "terminal"]_vars

\* C27's case: a poll returned BLOCKED from a read that was not its first.
C27_Witness ==
    /\ call # "none"
    /\ pc = "done"
    /\ result[1] = "BLOCKED"
    /\ hist.reads >= 2

\* C21: a dispatch of a task whose dispatch before returned TIMEOUT with
\* the Agent still running is carried out like any other: a PATCH that
\* goes through sets the row to IN_PROGRESS, and a trigger that succeeds
\* starts one more Agent of the task, whatever is running.
C21_NoMutualExclusion ==
    [][(call = "dispatch" /\ hist.after_timeout)
          => /\ (/\ pc = "mark"
                 /\ pc' = "trigger"
                 /\ hist'.patch_ok
                 /\ store[args.task_id] # None)
                  => store'[args.task_id].status = "IN_PROGRESS"
             /\ (pc = "trigger" /\ pc' = "poll")
                  => agents'[args.task_id] = agents[args.task_id] + 1]_vars

\* C21's case: after a TIMEOUT the task was dispatched again, and two of
\* its Agents are running.
C21_Witness ==
    /\ call = "dispatch"
    /\ hist.after_timeout
    /\ hist.writes = 1
    /\ pc = "poll"
    /\ agents[args.task_id] = 2

C25_BlockedReasonVerbatim ==
    (/\ call # "none"
     /\ pc = "done"
     /\ result[1] = "BLOCKED"
     /\ deliverable.blocked_reason # Null)
        => /\ result[2].kind = "blocked"
           /\ result[2].blocked_reason = deliverable.blocked_reason
           /\ call = "dispatch" => outcome = "BLOCKED" /\ exit_code = 2

\* C25's case: a dispatch ended with BLOCKED on a row that gives a reason.
C25_Witness ==
    /\ call = "dispatch"
    /\ pc = "done"
    /\ result[1] = "BLOCKED"
    /\ deliverable.blocked_reason = "a reason of 500 characters"

\* C29: a poll all of whose reads returned the row with a status that is
\* neither DELIVERED nor BLOCKED does not raise, runs on until a pass finds
\* the timeout exceeded, and then returns TIMEOUT with the "did not
\* complete" message.
C29_OtherStatusesAreNonTerminal ==
    (call # "none" /\ hist.read_log \in {"in_progress", "nonterminal"})
        => /\ pc \in {"poll", "done"}
           /\ pc = "poll" => now - start_time <= args.timeout_seconds
           /\ pc = "done"
                 => /\ result[1] = "TIMEOUT"
                    /\ result[2].kind = "did not complete"
                    /\ now - start_time > args.timeout_seconds

\* C29's case: a poll that read an unrecognised status several times has
\* returned.
C29_Witness ==
    /\ pc = "done"
    /\ hist.read_log = "nonterminal"
    /\ hist.reads >= 2
    /\ deliverable.status \in {Null, "FAILED"}

\* C28: in a run of the Google-Ads dispatcher each of validate_inputs,
\* test_ssh_connection and the trigger's ssh is run at most once; the
\* connection is tested only after validation passed, and the trigger is
\* run only after the test connected and answered CONNECTION_OK; a run
\* that has ended exits with 0 exactly when all three succeeded.
C28_RunStepsInOrder ==
    call = "run"
        => /\ hist.validations <= 1
           /\ hist.ssh_tests <= 1
           /\ hist.triggers <= 1
           /\ hist.ssh_tests > 0 => hist.validations = 1 /\ hist.valid
           /\ hist.triggers > 0 => hist.ssh_tests = 1 /\ hist.ssh_test = "ok"
           /\ pc = "done"
                 => (exit_code = 0
                       <=> /\ hist.valid
                           /\ hist.ssh_test = "ok"
                           /\ hist.ssh = "exit0")

\* C28's case: a run went through all three steps and returned True.
C28_Witness ==
    /\ call = "run"
    /\ pc = "done"
    /\ hist.triggers = 1
    /\ exit_code = 0

\* C30: the step in which the Agent of a task reports its end leaves the
\* row of every other task as it is.
C30_AgentWriteTouchesOwnRecordOnly ==
    [][\A t \in DOMAIN store :
         agents'[t] < agents[t]
            => \A u \in DOMAIN store \ {t} : store'[u] = store[u]]_vars

=============================================================================
